---- MODULE Spec2Model ----
(***************************************************************************)
(* A model of gache (src/gache.go): the sharded, time-expiring key/value   *)
(* cache.  One cache instance g, user goroutines calling its methods, the  *)
(* per-shard goroutines spawned by Range and DeleteExpired, the expiration  *)
(* daemon started by StartExpired, and the fastime clock.                   *)
(*                                                                         *)
(* Durations and instants are counted in clock units; the code only adds   *)
(* and compares them.  The uint64 size counter g.l is held as the int that  *)
(* Len() reinterprets it to (two's complement), so AddUint64(&g.l, ^0) is   *)
(* l - 1 and a counter below zero is the wrapped uint64.                    *)
(***************************************************************************)
EXTENDS Integers, Sequences, FiniteSets, Bags, TLC

\* ---------------------------------------------------------------- bounds
\* the clock runs from 0 to MaxTime
MaxTime == 2
\* the number of method calls the user goroutines make in one behaviour
MaxOps == 3

\* ------------------------------------------------------- program constants
slen == 512
mask == 511
NoTTL == -1
\* WithDefaultExpiration(time.Second * 30), in clock units
DefaultExpiration == 30

\* ------------------------------------------------------------ input sets
Keys == {"a", "b", "c"}
Vals == {1, 2}
Procs == {"p1", "p2"}
Sweeper == "sw"
Owners == Procs \cup {Sweeper}

\* xxh3.HashString on the model's keys: "a" and "b" fall into one shard,
\* "c" into another
HashString(k) == CASE k = "a" -> 515 [] k = "b" -> 1027 [] OTHER -> 5

\* g.shards[xxh3.HashString(key) & mask]; mask = 2^9 - 1, so & mask is % 2^9
ShardOf(k) == HashString(k) % (mask + 1)

\* the shards some key of the model routes to; every other shard of the
\* slen shards stays empty, and a scan of an empty shard does nothing
ShardIds == {ShardOf(k) : k \in Keys}

\* the goroutine of an owner that runs its method body is unit <<o, Main>>;
\* its scan of shard s is unit <<o, s>>
Main == slen
Units == Owners \X (ShardIds \cup {Main})
Scanners == Owners \X ShardIds

VARIABLES
    shards,          \* g.shards: shard index -> (key -> value{expire, val})
    l,               \* g.l, as Len() reads it
    expire,          \* g.expire, the default expiration
    expFuncEnabled,  \* g.expFuncEnabled
    expChan,         \* g.expChan, the hook-delivery queue
    inflight,        \* g.expGroup: keys with an expiration call in flight
    cancel,          \* g.cancel holds the daemon's CancelFunc
    now,             \* fastime.UnixNanoNow()
    proc,            \* user goroutines: position, arguments, results
    ex,              \* position of each goroutine inside g.expiration
    scan,            \* per-shard goroutines of Range / DeleteExpired
    rows,            \* DeleteExpired's rows counter, per caller
    calls,           \* the calls Range made to the user's callback f
    m,               \* the map Write collects / Read decodes
    sw,              \* the daemon goroutine of StartExpired
    ctxDone,         \* ctx.Done() of each caller's context
    hookCalls,       \* invocations of g.expFunc, per key
    buf,             \* the io.Writer / io.Reader: encoded objects in order
    ops,             \* calls made so far
    snap             \* the cache as it was when the last observed call began

cache == <<shards, l, expire, expFuncEnabled, expChan, inflight, cancel>>
gos == <<proc, ex, scan, rows, calls, m, sw, ctxDone, hookCalls, buf>>
vars == <<cache, gos, now, ops, snap>>

\* ------------------------------------------------------------ data types
\* value[V]{expire, val}
Value(e, v) == [expire |-> e, val |-> v]

\* var val V: the zero value of V
ZeroVal == 0

NoKey == ""

Idle == [pc |-> "idle", op |-> "none", k |-> NoKey, val |-> ZeroVal,
         exp |-> 0, ok |-> FALSE, cont |-> TRUE]

ExNone == [pc |-> "none", k |-> NoKey]
ScanOff == [pc |-> "off", cur |-> -1, k |-> NoKey]

\* a map without its key k / with k bound to v
MapDel(mp, k) == [x \in DOMAIN mp \ {k} |-> mp[x]]
MapSet(mp, k, v) == [x \in DOMAIN mp \cup {k} |-> IF x = k THEN v ELSE mp[x]]
EmptyMap == [x \in {} |-> ZeroVal]

\* hashmap.Map.Get on the key's shard
Stored(k) == k \in DOMAIN shards[ShardOf(k)]
Load(k) == shards[ShardOf(k)][k]

\* the keys held by any shard
StoredKeys == {k \in Keys : Stored(k)}

\* an isValid that finds every entry valid
isValidAlways(v, t) == TRUE

\* isValid with the bound off by one: an entry still valid one unit late
isValidLate(v, t) == v.expire <= 0 \/ t <= v.expire + 1

\* isValid, with the clock reading t
isValid(v, t) == v.expire <= 0 \/ t <= v.expire

\* gache.Len (Sequences owns the name Len)
GLen == l

\* New: the options applied (default expiration, hook enablement), empty
\* shards, an empty hook queue
New(hook) ==
    /\ shards = [s \in ShardIds |-> EmptyMap]
    /\ l = 0
    /\ expire = DefaultExpiration
    /\ expFuncEnabled = hook
    /\ expChan = <<>>
    /\ inflight = {}
    /\ cancel = FALSE

\* cap(g.expChan) = len(g.shards) * 10
ExpChanCap == slen * 10

\* a caller's note of its last Set or Delete of a key: the call, the value
\* and ttl passed, and the clock when it was made
Noted(op, val, ttl, t) == [op |-> op, val |-> val, ttl |-> ttl, at |-> t]
NoCall == Noted("none", ZeroVal, 0, 0)

\* what a caller notes of the cache at a point of its run (tag): the
\* counter, the shards, the clock, the ttl and value it passes, and its
\* last Set or Delete of each key
Snap(tag, ll, sh, t, ttl, val, last) ==
    [tag |-> tag, l |-> ll, shards |-> sh, now |-> t, ttl |-> ttl, val |-> val,
     last |-> last]
NoSnap == Snap("none", 0, [s \in ShardIds |-> EmptyMap], 0, 0, ZeroVal,
               [k \in Keys |-> NoCall])

Init ==
    /\ \E hook \in BOOLEAN : New(hook)
    /\ now = 0
    /\ proc = [p \in Procs |-> Idle]
    /\ ex = [u \in Units |-> ExNone]
    /\ scan = [u \in Scanners |-> ScanOff]
    /\ rows = [o \in Owners |-> 0]
    /\ calls = [p \in Procs |-> EmptyBag]
    /\ m = [p \in Procs |-> EmptyMap]
    /\ sw = "off"
    /\ ctxDone = [o \in Owners |-> FALSE]
    /\ hookCalls = [k \in Keys |-> 0]
    /\ buf = <<>>
    /\ ops = 0
    /\ snap = NoSnap

\* a user goroutine that can make its next call
Free(p) == proc[p].pc \in {"idle", "done"}

\* a returned call: its name, its key, and what it returned
Done(op, k, val, exp, ok) ==
    [pc |-> "done", op |-> op, k |-> k, val |-> val, exp |-> exp, ok |-> ok,
     cont |-> TRUE]

\* ------------------------------------------------------------------ clock
Advance ==
    /\ now < MaxTime
    /\ now' = now + 1
    /\ UNCHANGED <<cache, gos>>


\* -------------------------------------------------------------- set / Set
\* the record of a goroutine inside set: the clock has been read and the
\* counter incremented, the shard is still to be written
InSet(op, k, val, ex0, t) ==
    [pc |-> "set_store", op |-> op, k |-> k, val |-> val,
     exp |-> IF ex0 > 0 THEN t + ex0 ELSE ex0, ok |-> FALSE, cont |-> TRUE]

\* set, up to atomic.AddUint64(&g.l, 1)
set(p, k, val, ex0) ==
    /\ Free(p)
    /\ l' = l + 1
    /\ proc' = [proc EXCEPT ![p] = InSet("Set", k, val, ex0, now)]
    /\ UNCHANGED <<shards, expire, expFuncEnabled, expChan, inflight, cancel,
                   ex, scan, rows, calls, m, sw, ctxDone, hookCalls, buf, now>>

SetWithExpire(p, k, val, ttl) == set(p, k, val, ttl)

\* Set uses the default expiration g.expire
Set(p, k, val) == set(p, k, val, expire)

\* a set that replaces the value of a stored entry and keeps its expire
SetEntryValOnly(r) ==
    IF Stored(r.k) THEN Value(Load(r.k).expire, r.val) ELSE Value(r.exp, r.val)

\* the entry a set stores: value and expire replaced as a whole
SetEntry(r) == Value(r.exp, r.val)

\* set, the shard write; inside Read the loop goes on
SetStore(p) ==
    /\ proc[p].pc = "set_store"
    /\ LET r == proc[p]
           s == ShardOf(r.k)
       IN /\ shards' = [shards EXCEPT ![s] = MapSet(@, r.k, SetEntry(r))]
          /\ proc' = [proc EXCEPT ![p] =
                IF r.op = "Read" THEN [r EXCEPT !.pc = "read_loop"]
                ELSE Done("Set", r.k, ZeroVal, 0, TRUE)]
    /\ UNCHANGED <<l, expire, expFuncEnabled, expChan, inflight, cancel,
                   ex, scan, rows, calls, m, sw, ctxDone, hookCalls, buf, now>>

\* ------------------------------------------------ get / Get / GetWithExpire
\* get, first half: the shard lookup; a missing key returns at once
Get(p, k) ==
    /\ Free(p)
    /\ proc' = [proc EXCEPT ![p] =
          IF Stored(k)
          THEN [pc |-> "get_check", op |-> "Get", k |-> k, val |-> Load(k).val,
                exp |-> Load(k).expire, ok |-> FALSE, cont |-> TRUE]
          ELSE Done("Get", k, ZeroVal, 0, FALSE)]
    /\ UNCHANGED <<cache, ex, scan, rows, calls, m, sw, ctxDone, hookCalls, buf, now>>

\* get, second half: v.isValid() on the loaded value, else g.expiration(key)
GetCheck(p) ==
    /\ proc[p].pc = "get_check"
    /\ LET r == proc[p] IN
       IF isValid(Value(r.exp, r.val), now)
       THEN /\ proc' = [proc EXCEPT ![p] = Done("Get", r.k, r.val, r.exp, TRUE)]
            /\ UNCHANGED ex
       ELSE /\ proc' = [proc EXCEPT ![p].pc = "get_exp"]
            /\ ex' = [ex EXCEPT ![<<p, Main>>] = [pc |-> "do", k |-> r.k]]
    /\ UNCHANGED <<cache, scan, rows, calls, m, sw, ctxDone, hookCalls, buf, now>>

\* get returns (zero value, v.expire, false) once g.expiration has returned
GetRet(p) ==
    /\ proc[p].pc = "get_exp"
    /\ ex[<<p, Main>>].pc = "ret"
    /\ ex' = [ex EXCEPT ![<<p, Main>>] = ExNone]
    /\ proc' = [proc EXCEPT ![p] = Done("Get", proc[p].k, ZeroVal, proc[p].exp, FALSE)]
    /\ UNCHANGED <<cache, scan, rows, calls, m, sw, ctxDone, hookCalls, buf, now>>

\* ----------------------------------------------------------------- Delete
\* the counter Delete leaves: atomic.AddUint64(&g.l, ^uint64(0)), whether or
\* not the key is stored
DeleteLen(n, stored) == n - 1

\* Delete, first half: the counter is decremented
Delete(p, k) ==
    /\ Free(p)
    /\ l' = DeleteLen(l, Stored(k))
    /\ proc' = [proc EXCEPT ![p] =
                  [pc |-> "del_del", op |-> "Delete", k |-> k, val |-> ZeroVal,
                   exp |-> 0, ok |-> FALSE, cont |-> TRUE]]
    /\ UNCHANGED <<shards, expire, expFuncEnabled, expChan, inflight, cancel,
                   ex, scan, rows, calls, m, sw, ctxDone, hookCalls, buf, now>>

\* a Del that leaves the key in the shard
DelNone(mp, k) == mp

\* hashmap.Map.Del: the shard without the key
Del(mp, k) == MapDel(mp, k)

\* Delete, second half: Del on the key's shard, and its result
DeleteDel(p) ==
    /\ proc[p].pc = "del_del"
    /\ LET k == proc[p].k
           s == ShardOf(k)
       IN /\ shards' = [shards EXCEPT ![s] = Del(@, k)]
          /\ proc' = [proc EXCEPT ![p] = Done("Delete", k, ZeroVal, 0, Stored(k))]
    /\ UNCHANGED <<l, expire, expFuncEnabled, expChan, inflight, cancel,
                   ex, scan, rows, calls, m, sw, ctxDone, hookCalls, buf, now>>

\* ------------------------------------------------------------- expiration
\* a group that never shares a call
SharesNever(k) == FALSE

\* g.expGroup.Do(key, ...): does this caller join the call in flight for
\* the key (and wait for it) instead of running the body itself
Shares(k) == k \in inflight

ExpDo(u) ==
    /\ ex[u].pc = "do"
    /\ LET k == ex[u].k IN
       IF Shares(k)
       THEN /\ ex' = [ex EXCEPT ![u].pc = "wait"]
            /\ UNCHANGED inflight
       ELSE /\ ex' = [ex EXCEPT ![u].pc = "add"]
            /\ inflight' = inflight \cup {k}
    /\ UNCHANGED <<shards, l, expire, expFuncEnabled, expChan, cancel,
                   proc, scan, rows, calls, m, sw, ctxDone, hookCalls, buf, now>>

\* the body's g.Delete(key): the counter
ExpAdd(u) ==
    /\ ex[u].pc = "add"
    /\ l' = DeleteLen(l, Stored(ex[u].k))
    /\ ex' = [ex EXCEPT ![u].pc = "del"]
    /\ UNCHANGED <<shards, expire, expFuncEnabled, expChan, inflight, cancel,
                   proc, scan, rows, calls, m, sw, ctxDone, hookCalls, buf, now>>

\* the body's g.Delete(key): the shard
ExpDel(u) ==
    /\ ex[u].pc = "del"
    /\ shards' = [shards EXCEPT ![ShardOf(ex[u].k)] = Del(@, ex[u].k)]
    /\ ex' = [ex EXCEPT ![u].pc = "send"]
    /\ UNCHANGED <<l, expire, expFuncEnabled, expChan, inflight, cancel,
                   proc, scan, rows, calls, m, sw, ctxDone, hookCalls, buf, now>>

\* if g.expFuncEnabled { g.expChan <- key }: the send waits for room
ExpSend(u) ==
    /\ ex[u].pc = "send"
    /\ IF expFuncEnabled
       THEN /\ Len(expChan) < ExpChanCap
            /\ expChan' = Append(expChan, ex[u].k)
       ELSE UNCHANGED expChan
    /\ ex' = [ex EXCEPT ![u].pc = "exit"]
    /\ UNCHANGED <<shards, l, expire, expFuncEnabled, inflight, cancel,
                   proc, scan, rows, calls, m, sw, ctxDone, hookCalls, buf, now>>

\* the call leaves the group and the callers waiting for it are released
ExpExit(u) ==
    /\ ex[u].pc = "exit"
    /\ inflight' = inflight \ {ex[u].k}
    /\ ex' = [w \in Units |->
                IF w = u \/ (ex[w].pc = "wait" /\ ex[w].k = ex[u].k)
                THEN [ex[w] EXCEPT !.pc = "ret"] ELSE ex[w]]
    /\ UNCHANGED <<shards, l, expire, expFuncEnabled, expChan, cancel,
                   proc, scan, rows, calls, m, sw, ctxDone, hookCalls, buf, now>>

\* ------------------------------------------- shard scans (hashmap.Map.Range)
\* a scan that stops after the first element of its shard
AheadFirst(s, cur) == IF cur = -1 THEN DOMAIN shards[s] ELSE {}

\* the shard's list is kept in hash order; the scan goes on from its cursor
Ahead(s, cur) == {k \in DOMAIN shards[s] : HashString(k) > cur}
NextKey(s, cur) ==
    CHOOSE k \in Ahead(s, cur) : \A j \in Ahead(s, cur) : HashString(k) <= HashString(j)

\* what the scans of owner o run: Range's, Write's or DeleteExpired's closure
ModeOf(o) == IF o = Sweeper THEN "DeleteExpired" ELSE proc[o].op

\* one goroutine per shard, each at the head of its shard
FanOut(o) == [u \in Scanners |-> IF u[1] = o THEN [ScanOff EXCEPT !.pc = "run"] ELSE scan[u]]

\* wg.Wait(): every scan of the owner has called wg.Done()
Joined(o) == \A s \in ShardIds : scan[<<o, s>>].pc = "end"

ScanEnd == [ScanOff EXCEPT !.pc = "end"]

\* one element of a shard handed to the closure of Range or DeleteExpired
ScanStep(u) ==
    /\ scan[u].pc = "run"
    /\ LET o == u[1]
           s == u[2]
       IN IF Ahead(s, scan[u].cur) = {}
          THEN /\ scan' = [scan EXCEPT ![u] = ScanEnd]
               /\ UNCHANGED <<ex, calls, m>>
          ELSE LET k == NextKey(s, scan[u].cur)
                   v == shards[s][k]
                   on == [scan[u] EXCEPT !.cur = HashString(k)]
               IN IF ctxDone[o]
                  THEN /\ scan' = [scan EXCEPT ![u] = ScanEnd]
                       /\ UNCHANGED <<ex, calls, m>>
                  ELSE IF isValid(v, now)
                  THEN /\ UNCHANGED ex
                       /\ IF ModeOf(o) = "Range"
                          THEN /\ calls' = [calls EXCEPT ![o] =
                                              @ (+) SetToBag({<<k, v.val, v.expire>>})]
                               /\ scan' = [scan EXCEPT ![u] =
                                              IF proc[o].cont THEN on ELSE ScanEnd]
                               /\ UNCHANGED m
                          ELSE IF ModeOf(o) = "Write"
                          THEN /\ m' = [m EXCEPT ![o] = MapSet(@, k, v.val)]
                               /\ scan' = [scan EXCEPT ![u] = on]
                               /\ UNCHANGED calls
                          ELSE /\ scan' = [scan EXCEPT ![u] = on]
                               /\ UNCHANGED <<calls, m>>
                  ELSE /\ scan' = [scan EXCEPT ![u] = [on EXCEPT !.pc = "exp"]]
                       /\ ex' = [ex EXCEPT ![u] = [pc |-> "do", k |-> k]]
                       /\ UNCHANGED <<calls, m>>
    /\ UNCHANGED <<cache, proc, rows, sw, ctxDone, hookCalls, buf, now>>

\* g.expiration(k) has returned to the closure; DeleteExpired counts the row
ScanRet(u) ==
    /\ scan[u].pc = "exp"
    /\ ex[u].pc = "ret"
    /\ ex' = [ex EXCEPT ![u] = ExNone]
    /\ scan' = [scan EXCEPT ![u].pc = "run"]
    /\ rows' = [rows EXCEPT ![u[1]] = IF ModeOf(u[1]) = "DeleteExpired" THEN @ + 1 ELSE @]
    /\ UNCHANGED <<cache, proc, calls, m, sw, ctxDone, hookCalls, buf, now>>

\* a caller that waits in wg.Wait()
Waiting(op, cont) ==
    [pc |-> "wait", op |-> op, k |-> NoKey, val |-> ZeroVal, exp |-> 0,
     ok |-> FALSE, cont |-> cont]

\* ------------------------------------------------------------------ Range
\* Range with a callback f that returns cont on every call
Range(p, cont) ==
    /\ Free(p)
    /\ proc' = [proc EXCEPT ![p] = Waiting("Range", cont)]
    /\ scan' = FanOut(p)
    /\ calls' = [calls EXCEPT ![p] = EmptyBag]
    /\ ctxDone' = [ctxDone EXCEPT ![p] = FALSE]
    /\ UNCHANGED <<cache, ex, rows, m, sw, hookCalls, buf, now>>

\* a return as soon as one of the owner's scans has finished
MayReturnAny(o) == \E s \in ShardIds : scan[<<o, s>>].pc = "end"

\* may Range / DeleteExpired return
MayReturn(o) == Joined(o)

RangeJoin(p) ==
    /\ proc[p].pc = "wait"
    /\ proc[p].op = "Range"
    /\ MayReturn(p)
    /\ proc' = [proc EXCEPT ![p] =
                  [Done("Range", NoKey, ZeroVal, 0, TRUE) EXCEPT !.cont = proc[p].cont]]
    /\ UNCHANGED <<cache, ex, scan, rows, calls, m, sw, ctxDone, hookCalls, buf, now>>

\* ---------------------------------------------------------- DeleteExpired
DeleteExpired(p) ==
    /\ Free(p)
    /\ proc' = [proc EXCEPT ![p] = Waiting("DeleteExpired", TRUE)]
    /\ scan' = FanOut(p)
    /\ rows' = [rows EXCEPT ![p] = 0]
    /\ ctxDone' = [ctxDone EXCEPT ![p] = FALSE]
    /\ UNCHANGED <<cache, ex, calls, m, sw, hookCalls, buf, now>>

\* DeleteExpired returns atomic.LoadUint64(&rows)
DeleteExpiredJoin(p) ==
    /\ proc[p].pc = "wait"
    /\ proc[p].op = "DeleteExpired"
    /\ MayReturn(p)
    /\ proc' = [proc EXCEPT ![p] = Done("DeleteExpired", NoKey, ZeroVal, rows[p], TRUE)]
    /\ UNCHANGED <<cache, ex, scan, rows, calls, m, sw, ctxDone, hookCalls, buf, now>>

\* the caller's context is cancelled while its Range / DeleteExpired / Write runs
CancelCtx(p) ==
    /\ proc[p].pc = "wait"
    /\ ~ctxDone[p]
    /\ ctxDone' = [ctxDone EXCEPT ![p] = TRUE]
    /\ UNCHANGED <<cache, proc, ex, scan, rows, calls, m, sw, hookCalls, buf, now>>

\* ------------------------------------------------- StartExpired and Stop
\* StartExpired: go func() {...}; the call itself returns at once
StartExpired ==
    /\ \E p \in Procs : Free(p)
    /\ sw = "off"
    /\ sw' = "init"
    /\ UNCHANGED <<cache, proc, ex, scan, rows, calls, m, ctxDone, hookCalls, buf, now>>

\* the daemon: ticker, ctx, cancel := context.WithCancel(ctx); g.cancel.Store(cancel)
SweeperInit ==
    /\ sw = "init"
    /\ sw' = "loop"
    /\ cancel' = TRUE
    /\ UNCHANGED <<shards, l, expire, expFuncEnabled, expChan, inflight,
                   proc, ex, scan, rows, calls, m, ctxDone, hookCalls, buf, now>>

\* case <-tick.C: g.DeleteExpired(ctx), up to its wg.Wait()
SweeperTick ==
    /\ sw = "loop"
    /\ sw' = "sweep"
    /\ scan' = FanOut(Sweeper)
    /\ rows' = [rows EXCEPT ![Sweeper] = 0]
    /\ UNCHANGED <<cache, proc, ex, calls, m, ctxDone, hookCalls, buf, now>>

\* g.DeleteExpired(ctx) returns to the loop
SweeperJoin ==
    /\ sw = "sweep"
    /\ MayReturn(Sweeper)
    /\ sw' = "loop"
    /\ UNCHANGED <<cache, proc, ex, scan, rows, calls, m, ctxDone, hookCalls, buf, now>>

\* case key := <-g.expChan: go g.expFunc(ctx, key)
SweeperHook ==
    /\ sw = "loop"
    /\ expChan # <<>>
    /\ hookCalls' = [hookCalls EXCEPT ![Head(expChan)] = @ + 1]
    /\ expChan' = Tail(expChan)
    /\ UNCHANGED <<shards, l, expire, expFuncEnabled, inflight, cancel,
                   proc, ex, scan, rows, calls, m, sw, ctxDone, buf, now>>

\* case <-ctx.Done(): tick.Stop(); return
SweeperExit ==
    /\ sw = "loop"
    /\ ctxDone[Sweeper]
    /\ sw' = "exit"
    /\ UNCHANGED <<cache, proc, ex, scan, rows, calls, m, ctxDone, hookCalls, buf, now>>

\* Stop: the stored CancelFunc, if there is one, is called
Stop ==
    /\ \E p \in Procs : Free(p)
    /\ ctxDone' = [ctxDone EXCEPT ![Sweeper] = @ \/ cancel]
    /\ UNCHANGED <<cache, proc, ex, scan, rows, calls, m, sw, hookCalls, buf, now>>

\* Clear: every shard is replaced by a new map; g.l is not written
Clear(p) ==
    /\ Free(p)
    /\ shards' = [s \in ShardIds |-> EmptyMap]
    /\ proc' = [proc EXCEPT ![p] = Done("Clear", NoKey, ZeroVal, 0, TRUE)]
    /\ UNCHANGED <<l, expire, expFuncEnabled, expChan, inflight, cancel,
                   ex, scan, rows, calls, m, sw, ctxDone, hookCalls, buf, now>>

\* ---------------------------------------------------------- configuration
EnableExpiredHook ==
    /\ \E p \in Procs : Free(p)
    /\ expFuncEnabled' = TRUE
    /\ UNCHANGED <<shards, l, expire, expChan, inflight, cancel, gos, now>>

DisableExpiredHook ==
    /\ \E p \in Procs : Free(p)
    /\ expFuncEnabled' = FALSE
    /\ UNCHANGED <<shards, l, expire, expChan, inflight, cancel, gos, now>>

SetDefaultExpire(d) ==
    /\ \E p \in Procs : Free(p)
    /\ expire' = d
    /\ UNCHANGED <<shards, l, expFuncEnabled, expChan, inflight, cancel, gos, now>>

\* --------------------------------------------------------- Write and Read
\* the orders in which a map's keys can be walked
Orders(S) == {f \in [1..Cardinality(S) -> S] : \A i, j \in DOMAIN f : f[i] = f[j] => i = j}

\* gob.NewEncoder(w).Encode(&m): the pairs of the map, one after the other,
\* in the order the encoder walks the map
Encode(mp) == {[i \in DOMAIN f |-> <<f[i], mp[f[i]]>>] : f \in Orders(DOMAIN mp)}

\* a decoder that stops after the first pair of the stream
DecodeFirst(bytes) ==
    IF bytes = <<>> THEN EmptyMap ELSE MapSet(EmptyMap, bytes[1][1], bytes[1][2])

\* gob.NewDecoder(r).Decode(&m): each pair of the stream put into the map
RECURSIVE Decode(_)
Decode(bytes) ==
    IF bytes = <<>> THEN EmptyMap
    ELSE LET n == Len(bytes)
         IN MapSet(Decode(SubSeq(bytes, 1, n - 1)), bytes[n][1], bytes[n][2])

\* Write, up to Range's wg.Wait(): m := make(map[string]V, g.Len())
Write(p) ==
    /\ Free(p)
    /\ proc' = [proc EXCEPT ![p] = Waiting("Write", TRUE)]
    /\ scan' = FanOut(p)
    /\ m' = [m EXCEPT ![p] = EmptyMap]
    /\ ctxDone' = [ctxDone EXCEPT ![p] = FALSE]
    /\ UNCHANGED <<cache, ex, rows, calls, sw, hookCalls, buf, now>>

\* Write, after Range: the collected map is encoded to the writer
WriteEncode(p) ==
    /\ proc[p].pc = "wait"
    /\ proc[p].op = "Write"
    /\ MayReturn(p)
    /\ \E bytes \in Encode(m[p]) : buf' = Append(buf, bytes)
    /\ proc' = [proc EXCEPT ![p] = Done("Write", NoKey, ZeroVal, 0, TRUE)]
    /\ UNCHANGED <<cache, ex, scan, rows, calls, m, sw, ctxDone, hookCalls, now>>

\* Read, the decoding: an exhausted reader is an error and nothing is set
Read(p) ==
    /\ Free(p)
    /\ IF buf = <<>>
       THEN /\ proc' = [proc EXCEPT ![p] = Done("Read", NoKey, ZeroVal, 0, FALSE)]
            /\ UNCHANGED <<m, buf>>
       ELSE /\ m' = [m EXCEPT ![p] = Decode(Head(buf))]
            /\ buf' = Tail(buf)
            /\ proc' = [proc EXCEPT ![p] =
                          [Waiting("Read", TRUE) EXCEPT !.pc = "read_loop"]]
    /\ UNCHANGED <<cache, ex, scan, rows, calls, sw, ctxDone, hookCalls, now>>

\* Read, for k, v := range m { g.Set(k, v) }: the next pair, in any order,
\* up to set's AddUint64; with no pair left Read returns nil
ReadLoop(p) ==
    /\ proc[p].pc = "read_loop"
    /\ IF DOMAIN m[p] = {}
       THEN /\ proc' = [proc EXCEPT ![p] = Done("Read", NoKey, ZeroVal, 0, TRUE)]
            /\ UNCHANGED <<m, l>>
       ELSE \E k \in DOMAIN m[p] :
               /\ proc' = [proc EXCEPT ![p] = InSet("Read", k, m[p][k], expire, now)]
               /\ m' = [m EXCEPT ![p] = MapDel(@, k)]
               /\ l' = l + 1
    /\ UNCHANGED <<shards, expire, expFuncEnabled, expChan, inflight, cancel,
                   ex, scan, rows, calls, sw, ctxDone, hookCalls, buf, now>>

\* a second cache is constructed with New and the callers go on with it;
\* the first one is not used again
NewCache ==
    /\ \A p \in Procs : Free(p)
    /\ sw = "off"
    /\ shards' = [s \in ShardIds |-> EmptyMap]
    /\ l' = 0
    /\ expire' = DefaultExpiration
    /\ \E hook \in BOOLEAN : expFuncEnabled' = hook
    /\ expChan' = <<>>
    /\ inflight' = {}
    /\ cancel' = FALSE
    /\ UNCHANGED <<gos, now>>

\* ------------------------------------------------------------------ specs
\* a call counted against the callers' budget / a step of a call under way
Call(A) == ops < MaxOps /\ ops' = ops + 1 /\ A
Step(A) == A /\ UNCHANGED ops

\* the inputs of the concurrent specification
CKeys == {"a", "b"}
CVals == {1}
CTTLs == {NoTTL, 1}

\* the steps goroutines take inside calls under way, and the clock
Inner ==
    \/ Advance
    \/ \E p \in Procs : GetCheck(p)
    \/ \E p \in Procs : GetRet(p)
    \/ \E p \in Procs : DeleteDel(p)
    \/ \E u \in Units : ExpDo(u)
    \/ \E u \in Units : ExpAdd(u)
    \/ \E u \in Units : ExpDel(u)
    \/ \E u \in Units : ExpSend(u)
    \/ \E u \in Units : ExpExit(u)
    \/ \E u \in Scanners : ScanStep(u)
    \/ \E u \in Scanners : ScanRet(u)
    \/ \E p \in Procs : RangeJoin(p)

\* the daemon's steps other than its sweeps
Daemon ==
    \/ SweeperInit
    \/ SweeperJoin
    \/ SweeperHook

\* two goroutines calling the cache concurrently, with the daemon; the
\* daemon's sweeps count against the budget of calls
Next ==
    \/ Step(Inner) /\ UNCHANGED snap
    \/ Step(Daemon) /\ UNCHANGED snap
    \/ \E p \in Procs : Step(SetStore(p)) /\ UNCHANGED snap
    \/ Call(StartExpired) /\ UNCHANGED snap
    \/ Call(SweeperTick) /\ UNCHANGED snap
    \/ \E p \in Procs, k \in CKeys, v \in CVals, t \in CTTLs :
          Call(SetWithExpire(p, k, v, t)) /\ UNCHANGED snap
    \/ \E p \in Procs, k \in CKeys : Call(Get(p, k)) /\ UNCHANGED snap
    \/ \E p \in Procs, k \in CKeys : Call(Delete(p, k)) /\ UNCHANGED snap
    \/ \E p \in Procs : Call(Range(p, TRUE)) /\ UNCHANGED snap

Spec == Init /\ [][Next]_vars

\* ----------------------------------------------------------------
\* One expiring entry: a single SetWithExpire(k, v, ttl) with ttl > 0 is
\* made and completes, the cache as it is then is noted, and from then on
\* the goroutines only Get that key, with the daemon started and sweeping.
TheKey == CHOOSE k \in Keys : k \in DOMAIN snap.shards[ShardOf(k)]

ExpNext ==
    \/ Step(Inner) /\ UNCHANGED snap
    \/ Step(Daemon) /\ UNCHANGED snap
    \/ Step(StartExpired) /\ UNCHANGED snap
    \/ Call(SweeperTick) /\ UNCHANGED snap
    \/ \E p \in Procs, k \in CKeys, v \in Vals :
          ops = 0 /\ Call(SetWithExpire(p, k, v, 1)) /\ UNCHANGED snap
    \/ \E p \in Procs :
          Step(SetStore(p)) /\ snap' = Snap("set", l', shards', now, 1, proc[p].val, snap.last)
    \/ \E p \in Procs :
          snap.tag = "set" /\ Call(Get(p, TheKey)) /\ UNCHANGED snap

SpecExp == Init /\ [][ExpNext]_vars

\* ----------------------------------------------------------------
\* One goroutine calling the cache, one call after the other; it notes the
\* cache as it is when each call begins.
Solo == "p1"

\* its inputs
SKeys == {"a", "b"}
SVals == {1, 2}
STTLs == {NoTTL, 0, 1}

Observed(A, ttl, val, last) ==
    Call(A) /\ snap' = Snap("call", l, shards, now, ttl, val, last)

\* the note of the last Set or Delete, with this call on key k added
After(op, k, val, ttl) == [snap.last EXCEPT ![k] = Noted(op, val, ttl, now)]

SeqNext ==
    \/ Step(Inner) /\ UNCHANGED snap
    \/ Step(SetStore(Solo)) /\ UNCHANGED snap
    \/ \E k \in SKeys, v \in SVals, t \in STTLs :
          Observed(SetWithExpire(Solo, k, v, t), t, v, After("Set", k, v, t))
    \/ \E k \in SKeys : Observed(Get(Solo, k), 0, ZeroVal, snap.last)
    \/ \E k \in SKeys :
          Observed(Delete(Solo, k), 0, ZeroVal, After("Delete", k, ZeroVal, 0))

SpecSeq == Init /\ [][SeqNext]_vars

\* ----------------------------------------------------------------
\* One goroutine that fills the cache, scans it with Range and
\* DeleteExpired, under a context it may cancel, and Clears it; it notes
\* the cache as it is when each call begins.
ScanNext ==
    \/ Step(Inner) /\ UNCHANGED snap
    \/ Step(SetStore(Solo)) /\ UNCHANGED snap
    \/ Step(DeleteExpiredJoin(Solo)) /\ UNCHANGED snap
    \/ Step(CancelCtx(Solo)) /\ UNCHANGED snap
    \/ \E k \in Keys, v \in CVals, t \in CTTLs :
          Observed(SetWithExpire(Solo, k, v, t), t, v, snap.last)
    \/ \E c \in BOOLEAN : Observed(Range(Solo, c), 0, ZeroVal, snap.last)
    \/ Observed(DeleteExpired(Solo), 0, ZeroVal, snap.last)
    \/ Observed(Clear(Solo), 0, ZeroVal, snap.last)

SpecScan == Init /\ [][ScanNext]_vars

\* ----------------------------------------------------------------
\* The round trip: one goroutine Sets entries that never expire, Writes the
\* cache to a buffer (noting the cache as it is then), constructs a second
\* cache, Reads the buffer into it and Gets from it.
RTNext ==
    \/ Step(Advance) /\ UNCHANGED snap
    \/ Step(GetCheck(Solo)) /\ UNCHANGED snap
    \/ Step(\E u \in Scanners : ScanStep(u)) /\ UNCHANGED snap
    \/ Step(SetStore(Solo)) /\ UNCHANGED snap
    \/ Step(WriteEncode(Solo)) /\ UNCHANGED snap
    \/ Step(ReadLoop(Solo)) /\ UNCHANGED snap
    \/ \E k \in Keys, v \in Vals :
          /\ snap.tag = "none"
          /\ Call(SetWithExpire(Solo, k, v, NoTTL)) /\ UNCHANGED snap
    \/ /\ snap.tag = "none"
       /\ Step(Write(Solo))
       /\ snap' = Snap("write", l, shards, now, 0, ZeroVal, snap.last)
    \/ /\ snap.tag = "write" /\ buf # <<>>
       /\ Step(NewCache)
       /\ snap' = [snap EXCEPT !.tag = "fresh"]
    \/ /\ snap.tag = "fresh"
       /\ Step(Read(Solo))
       /\ snap' = [snap EXCEPT !.tag = "read"]
    \/ \E k \in Keys :
          /\ snap.tag = "read"
          /\ Step(Get(Solo, k)) /\ UNCHANGED snap

SpecRT == Init /\ [][RTNext]_vars

\* ----------------------------------------------------------------
\* The hook queue full and no daemon: the hook is enabled, earlier evictions
\* have filled the queue to its capacity and StartExpired was never called.
\* One SetWithExpire(k, v, ttl) with ttl > 0 is made; the goroutines then
\* Get the key and call DeleteExpired, under contexts they may cancel.
FullQueue == [i \in 1..ExpChanCap |-> "c"]

InitFull ==
    /\ shards = [s \in ShardIds |-> EmptyMap]
    /\ l = 0
    /\ expire = DefaultExpiration
    /\ expFuncEnabled = TRUE
    /\ expChan = FullQueue
    /\ inflight = {}
    /\ cancel = FALSE
    /\ now = 0
    /\ proc = [p \in Procs |-> Idle]
    /\ ex = [u \in Units |-> ExNone]
    /\ scan = [u \in Scanners |-> ScanOff]
    /\ rows = [o \in Owners |-> 0]
    /\ calls = [p \in Procs |-> EmptyBag]
    /\ m = [p \in Procs |-> EmptyMap]
    /\ sw = "off"
    /\ ctxDone = [o \in Owners |-> FALSE]
    /\ hookCalls = [k \in Keys |-> 0]
    /\ buf = <<>>
    /\ ops = 0
    /\ snap = NoSnap

\* the steps every goroutine goes on to take once it can
FullSteps ==
    \/ Step(Inner) /\ UNCHANGED snap
    \/ \E p \in Procs : Step(SetStore(p)) /\ UNCHANGED snap
    \/ \E p \in Procs : Step(DeleteExpiredJoin(p)) /\ UNCHANGED snap

FullNext ==
    \/ FullSteps
    \/ \E p \in Procs : Step(CancelCtx(p)) /\ UNCHANGED snap
    \/ \E p \in Procs, k \in CKeys :
          ops = 0 /\ Call(SetWithExpire(p, k, 1, 1)) /\ UNCHANGED snap
    \/ \E p \in Procs, k \in CKeys : Call(Get(p, k)) /\ UNCHANGED snap
    \/ \E p \in Procs : Call(DeleteExpired(p)) /\ UNCHANGED snap

SpecFull == InitFull /\ [][FullNext]_vars /\ WF_vars(FullSteps)

\* ----------------------------------------------------------------
\* The daemon's life: StartExpired is called, the daemon sweeps the entries
\* a goroutine has Set and dispatches hooks, and Stop is called; the caller
\* notes when it has called Stop after StartExpired had returned.  The
\* daemon's goroutine is scheduled, and its select takes a case that is
\* ready again and again.
LifeSteps ==
    \/ Step(Inner) /\ UNCHANGED snap
    \/ Step(Daemon) /\ UNCHANGED snap
    \/ Step(SetStore(Solo)) /\ UNCHANGED snap

LifeExit == Step(SweeperExit) /\ UNCHANGED snap

LifeNext ==
    \/ LifeSteps
    \/ LifeExit
    \/ Step(SweeperTick) /\ UNCHANGED snap
    \/ Step(StartExpired) /\ UNCHANGED snap
    \/ \E k \in CKeys, t \in CTTLs :
          Call(SetWithExpire(Solo, k, 1, t)) /\ UNCHANGED snap
    \/ /\ Call(Stop)
       /\ snap' = IF sw = "off" THEN snap ELSE [snap EXCEPT !.tag = "stop"]

SpecLife ==
    Init /\ [][LifeNext]_vars /\ WF_vars(LifeSteps) /\ SF_vars(LifeExit)

\* ----------------------------------------------------------------
\* The hook queue full and the daemon started: as above the hook is enabled
\* and earlier evictions have filled the queue; StartExpired is called, the
\* daemon sweeps and dispatches hooks (both counted against the budget of
\* calls), one SetWithExpire(k, v, ttl) with ttl > 0 is made, the goroutines
\* Get the key, and Stop is called.
JamSteps ==
    \/ Step(Inner) /\ UNCHANGED snap
    \/ Step(SweeperInit \/ SweeperJoin \/ SweeperExit) /\ UNCHANGED snap
    \/ \E p \in Procs : Step(SetStore(p)) /\ UNCHANGED snap

JamNext ==
    \/ JamSteps
    \/ Step(StartExpired) /\ UNCHANGED snap
    \/ Step(Stop) /\ UNCHANGED snap
    \/ Call(SweeperTick) /\ UNCHANGED snap
    \/ Call(SweeperHook) /\ UNCHANGED snap
    \/ \E p \in Procs, k \in CKeys :
          ops = 0 /\ Call(SetWithExpire(p, k, 1, 1)) /\ UNCHANGED snap
    \/ \E p \in Procs, k \in CKeys : Call(Get(p, k)) /\ UNCHANGED snap

SpecJam == InitFull /\ [][JamNext]_vars /\ WF_vars(JamSteps)

\* ================================================================ claims
\* no call is under way: every goroutine has returned, no expiration is in
\* flight and no scan is running
Quiet ==
    /\ \A p \in Procs : Free(p)
    /\ \A u \in Units : ex[u].pc = "none"
    /\ \A u \in Scanners : scan[u].pc \in {"off", "end"}
    /\ sw # "sweep"

\* how often key k is waiting in the hook queue
Queued(k) == Cardinality({i \in 1..Len(expChan) : expChan[i] = k})

\* C1: get decides found on the loaded entry's expire_at and the clock at
\* that moment: it returns found = true exactly when expire_at <= 0 or
\* now <= expire_at, so a Get never returns found = true for an entry whose
\* expire_at is > 0 and earlier than the current time, whatever Set, Delete,
\* Range and the daemon do meanwhile.
C1_NoStaleRead ==
    [][\A p \in Procs :
         (proc[p].pc = "get_check" /\ proc'[p] # proc[p]) =>
            /\ proc'[p].ok = (proc[p].exp <= 0 \/ now' <= proc[p].exp)
            /\ proc'[p].ok => /\ proc'[p].pc = "done"
                              /\ ~(proc'[p].exp > 0 /\ proc'[p].exp < now')]_vars

\* C1, witness: a Get of an entry whose expire_at has passed returned not found
C1_Witness ==
    \E p \in Procs :
       /\ proc[p].pc = "done" /\ proc[p].op = "Get" /\ ~proc[p].ok
       /\ proc[p].exp > 0 /\ proc[p].exp < now

\* C2, as claimed: after the one SetWithExpire(k, v, ttl), ttl > 0, a Get(k)
\* that returns while the ttl has not elapsed returns (v, true), a Get that
\* finds the entry returns the value and expire_at that were set, and once
\* a Get(k) has returned not found Len() is 0 (the cache held only k),
\* however many Gets are made and however they interleave.
C2_ExpireThenAbsent ==
    snap.tag = "set" =>
       LET e == snap.shards[ShardOf(TheKey)][TheKey] IN
       \A p \in Procs :
          (proc[p].pc = "done" /\ proc[p].op = "Get") =>
             /\ now <= e.expire => proc[p].ok
             /\ proc[p].ok => (proc[p].val = e.val /\ proc[p].exp = e.expire)
             /\ ~proc[p].ok => GLen = 0

\* C4, as claimed: with the hook enabled and the daemon running, the one
\* expiration of the one stored key makes the hook run exactly once for the
\* key, whatever the number of readers: the hook never runs a second time,
\* and with every call returned and the queue drained it has run once.
C4_HookOnce ==
    (expFuncEnabled /\ snap.tag = "set") =>
       /\ hookCalls[TheKey] <= 1
       /\ ( /\ Quiet /\ sw = "loop" /\ expChan = <<>>
            /\ \E p \in Procs : proc[p].pc = "done" /\ proc[p].op = "Get" /\ ~proc[p].ok )
          => hookCalls[TheKey] = 1

\* C5, as claimed: with all operations completed, Len() is the number of
\* keys stored in the shards.
C5_LenIsCount == Quiet => GLen = Cardinality(StoredKeys)

\* C6, as claimed: an entry stored with NoTTL or a non-positive ttl is never
\* evicted: no expiration started by a Get, a Range or a sweep is ever about
\* to delete (and enqueue) a key whose stored entry never expires.
C6_NoTTLNeverEvicted ==
    \A u \in Units :
       ex[u].pc \in {"add", "del"} =>
          ~(Stored(ex[u].k) /\ Load(ex[u].k).expire <= 0)

\* the keys a noted cache holds, and the entry it holds for a key
KeysOf(sh) == {k \in Keys : k \in DOMAIN sh[ShardOf(k)]}
EntryOf(sh, k) == sh[ShardOf(k)][k]

\* C3, as claimed: a Delete(k) of a key that was not stored when it was
\* called returns false and leaves Len() and every shard as they were
\* before the call.
C3_DeleteAbsentKeepsLen ==
    LET r == proc[Solo] IN
    (r.pc = "done" /\ r.op = "Delete" /\ r.k \notin KeysOf(snap.shards)) =>
       /\ ~r.ok
       /\ GLen = snap.l
       /\ shards = snap.shards

\* the expire_at a Set made at clock t with the given ttl stores
ExpireAt(t, ttl) == IF ttl > 0 THEN t + ttl ELSE ttl

C8_DeleteRemoves ==
    LET r == proc[Solo] IN
    /\ (r.pc = "done" /\ r.op = "Delete") =>
          /\ r.ok = (r.k \in KeysOf(snap.shards))
          /\ shards = [snap.shards EXCEPT ![ShardOf(r.k)] = MapDel(@, r.k)]
    /\ (r.pc = "done" /\ r.op = "Get" /\ snap.last[r.k].op = "Delete") => ~r.ok

\* C8, witness: a Delete of a stored key returned true with another key
\* left in the cache
C8_Witness ==
    LET r == proc[Solo] IN
    /\ r.pc = "done" /\ r.op = "Delete" /\ r.ok
    /\ r.k \in KeysOf(snap.shards)
    /\ StoredKeys # {}

\* C9: a returned Range has joined every per-shard traversal; and when its
\* callback always returns true, its context was not cancelled, and every
\* entry the cache held when it was called is still valid, the callback
\* was invoked exactly once for each key the cache held, with that key's
\* value and expire_at, and for nothing else.
C9_RangeVisitsEachOnce ==
    LET r == proc[Solo] IN
    (r.pc = "done" /\ r.op = "Range") =>
       /\ Joined(Solo)
       /\ ( /\ r.cont /\ ~ctxDone[Solo]
            /\ \A k \in KeysOf(snap.shards) : isValid(EntryOf(snap.shards, k), now) )
          => calls[Solo] = SetToBag({<<k, EntryOf(snap.shards, k).val,
                                        EntryOf(snap.shards, k).expire>> :
                                      k \in KeysOf(snap.shards)})

\* C9, witness: a Range over two valid keys returned with its context not
\* cancelled, after two invocations of the callback
C9_Witness ==
    LET r == proc[Solo] IN
    /\ r.pc = "done" /\ r.op = "Range" /\ r.cont /\ ~ctxDone[Solo]
    /\ Cardinality(KeysOf(snap.shards)) = 2
    /\ \A k \in KeysOf(snap.shards) : isValid(EntryOf(snap.shards, k), now)
    /\ BagCardinality(calls[Solo]) = 2

\* C10: after entries that never expire were Set, the cache was Written
\* and the buffer Read into a fresh cache, the fresh cache holds exactly
\* the keys written, and a Get of a key returns (value, true) with the
\* value written if the key was written, and not found otherwise.
C10_RoundTrip ==
    LET r == proc[Solo] IN
    /\ (snap.tag = "read" /\ r.pc = "done" /\ r.op \in {"Read", "Get"}) =>
          /\ StoredKeys = KeysOf(snap.shards)
          /\ \A k \in StoredKeys : Load(k).val = EntryOf(snap.shards, k).val
    /\ (snap.tag = "read" /\ r.pc = "done" /\ r.op = "Get") =>
          IF r.k \in KeysOf(snap.shards)
          THEN r.ok /\ r.val = EntryOf(snap.shards, r.k).val
          ELSE ~r.ok

\* C10, witness: two keys with different values were written and read
\* back, and a Get in the fresh cache returned the value 2
C10_Witness ==
    LET r == proc[Solo] IN
    /\ snap.tag = "read" /\ r.pc = "done" /\ r.op = "Get" /\ r.ok /\ r.val = 2
    /\ \E k \in KeysOf(snap.shards) : EntryOf(snap.shards, k).val = 1

\* C11, as claimed: a Get of an expired key always returns to its caller,
\* with the hook enabled, the hook queue full and no daemon consuming it.
C11_GetReturns ==
    \A p \in Procs :
       (proc[p].op = "Get" /\ proc[p].pc \in {"get_check", "get_exp"})
          ~> (proc[p].pc = "done")

\* C12, as claimed: once Stop has been called after StartExpired had
\* returned, the daemon's loop eventually exits, and after its exit there
\* is no further sweep and no further hook dispatch.
C12_StopEndsSweeper ==
    /\ (snap.tag = "stop") ~> (sw = "exit")
    /\ [][sw = "exit" => (sw' = "exit" /\ hookCalls' = hookCalls)]_vars

\* C13, as claimed: after a Clear with no operation running beside it, no
\* shard holds an entry (a Get finds no key, a Range visits nothing) and
\* Len() is 0.
C13_ClearResets ==
    LET r == proc[Solo] IN
    (r.pc = "done" /\ r.op = "Clear") => (StoredKeys = {} /\ GLen = 0)

\* C14, as claimed: every call of DeleteExpired eventually returns, with
\* the hook enabled and however many evictions there have been, and once
\* its context is cancelled the scans stop and the call returns.
C14_DeleteExpiredReturns ==
    \A p \in Procs :
       /\ (proc[p].op = "DeleteExpired" /\ proc[p].pc = "wait")
             ~> (proc[p].pc = "done")
       /\ (proc[p].op = "DeleteExpired" /\ proc[p].pc = "wait" /\ ctxDone[p])
             ~> (proc[p].pc = "done")

\* C15: a DeleteExpired that has returned, its context not cancelled and
\* no Set running beside it, has removed every entry that was expired when
\* it was called, has left every entry that is still valid as it was, has
\* added none, and returned the number of entries it removed.
C15_DeleteExpiredExact ==
    LET r == proc[Solo]
        had == KeysOf(snap.shards)
    IN (r.pc = "done" /\ r.op = "DeleteExpired" /\ ~ctxDone[Solo]) =>
          /\ \A k \in had :
                LET e == EntryOf(snap.shards, k) IN
                /\ ~isValid(e, snap.now) => ~Stored(k)
                /\ isValid(e, now) => (Stored(k) /\ Load(k) = e)
          /\ StoredKeys \subseteq had
          /\ r.exp = Cardinality(had \ StoredKeys)

\* C15, witness: a DeleteExpired returned 1 after removing the expired one
\* of two stored entries and leaving the valid one
C15_Witness ==
    LET r == proc[Solo] IN
    /\ r.pc = "done" /\ r.op = "DeleteExpired" /\ ~ctxDone[Solo]
    /\ r.exp = 1
    /\ Cardinality(KeysOf(snap.shards)) = 2
    /\ Cardinality(StoredKeys) = 1

\* C16: every invocation of Range's callback passes the key, value and
\* expire_at of a stored entry that is valid at that moment, by a shard
\* traversal that is running under a context not cancelled, and a callback
\* that returns false ends that shard's traversal; an entry a traversal
\* finds expired is handed to g.expiration and not to the callback.
C16_RangeOnlyValid ==
    [][/\ \A p \in Procs :
            (calls'[p] # calls[p] /\ proc'[p] = proc[p]) =>
               \E k \in Keys :
                  LET u == <<p, ShardOf(k)>> IN
                  /\ Stored(k)
                  /\ Load(k).expire <= 0 \/ now <= Load(k).expire
                  /\ calls'[p] = calls[p] (+) SetToBag({<<k, Load(k).val, Load(k).expire>>})
                  /\ proc[p].op = "Range" /\ ~ctxDone[p]
                  /\ scan[u].pc = "run"
                  /\ ~proc[p].cont => scan'[u].pc = "end"
       /\ \A u \in Scanners :
            (scan[u].pc = "run" /\ scan'[u].pc = "exp") =>
               /\ calls' = calls
               /\ ex'[u].pc = "do"
               /\ Stored(ex'[u].k) /\ ShardOf(ex'[u].k) = u[2]
               /\ Load(ex'[u].k).expire > 0 /\ Load(ex'[u].k).expire < now
      ]_vars

\* C16, witness: a returned Range made one callback, for the valid one of
\* the two entries the cache held, and the expired one has been evicted
C16_Witness ==
    LET r == proc[Solo] IN
    /\ r.pc = "done" /\ r.op = "Range"
    /\ BagCardinality(calls[Solo]) = 1
    /\ Cardinality(KeysOf(snap.shards)) = 2
    /\ Cardinality(StoredKeys) = 1

\* the units whose g.expiration waits in g.expChan <- key on the full queue
Blocked(u) == ex[u].pc = "send" /\ expFuncEnabled /\ Len(expChan) = ExpChanCap

\* C17, as claimed, for the keys in the queue while the running daemon's
\* own sweep waits to enqueue one more: with the hook enabled and the
\* daemon running, a key that evictions have enqueued is eventually
\* dequeued and the hook invoked with it, unless Stop is called first.
C17_HookDelivered ==
    \A n \in 0..MaxOps :
       ( /\ expFuncEnabled /\ sw = "sweep" /\ ~ctxDone[Sweeper]
         /\ \E s \in ShardIds : Blocked(<<Sweeper, s>>)
         /\ hookCalls[Head(expChan)] = n )
       ~> (hookCalls["c"] > n \/ ctxDone[Sweeper])

\* the units running the delete-and-enqueue body for key k
InBody(k) == {u \in Units : ex[u].k = k /\ ex[u].pc \in {"add", "del", "send", "exit"}}

\* C18: at any moment at most one execution of the delete-and-enqueue body
\* is in progress for a key, the key is in flight exactly while one is, and
\* a caller that waits for a key's eviction waits for an execution that is
\* in progress and does not run the body itself.
C18_OneBodyPerKey ==
    \A k \in Keys :
       /\ Cardinality(InBody(k)) <= 1
       /\ (k \in inflight) = (InBody(k) # {})
       /\ \A u \in Units : (ex[u].pc = "wait" /\ ex[u].k = k) => InBody(k) # {}

\* C18, witness: while one goroutine runs the body for a key, another that
\* called g.expiration for the same key waits for it
C18_Witness ==
    \E k \in Keys, u \in Units :
       /\ ex[u].pc = "wait" /\ ex[u].k = k
       /\ InBody(k) # {}

\* C19, as claimed: the hook queue never holds more than its capacity, an
\* eviction waiting to enqueue goes on once the queue has room, and an
\* eviction blocked on the full queue is released once the daemon has been
\* stopped and has exited.
C19_QueueBounded ==
    /\ [](Len(expChan) <= ExpChanCap)
    /\ \A u \in Units :
          (ex[u].pc = "send" /\ Len(expChan) < ExpChanCap) ~> (ex[u].pc # "send")
    /\ \A u \in Units :
          (Blocked(u) /\ sw = "exit") ~> ~Blocked(u)

\* C20, as claimed: the delete of an expiration-driven eviction never
\* removes a valid entry: the entry it removes from the shard is expired at
\* that moment, also when a Set has stored a fresh entry for the key since
\* the eviction was started.
C20_NoValidEvicted ==
    [][\A u \in Units :
         (ex[u].pc = "del" /\ ex'[u].pc = "send" /\ Stored(ex[u].k)) =>
            /\ Load(ex[u].k).expire > 0
            /\ Load(ex[u].k).expire < now]_vars
====
